---- MODULE Spec2Model ----
(***************************************************************************)
(* SerialWeight.ino: an Arduino Mega reads weight lines from an Ohaus      *)
(* Navigator scale on Serial1, shows each line on row 0 of a 16x2 LCD,     *)
(* draws a capacity bar on row 1 and drives three check-weighing LEDs.     *)
(*                                                                         *)
(* Weights are floats in the sketch.  The model keeps a weight as an       *)
(* integer number of tenths of a gram, which is exact for every weight it  *)
(* draws (all below 2^24, the precision of the AVR's 32 bit float).        *)
(***************************************************************************)
EXTENDS Integers, Sequences, FiniteSets, TLC

-----------------------------------------------------------------------------
(* Bounds of the model.                                                    *)

\* Capacity of receivedStr.  The sketch sets 42 (SerialWeight.ino:36); the
\* loop is uniform in it and the model checks it for a small capacity.
maxChars == 4

\* How many bytes of foreign memory a strlen() that runs off the end of
\* receivedStr may pass before it meets a zero byte.
MaxOverrun == 1

\* How many bytes may be fed to the loop between two resets of the buffer.
MaxFedSlack == 1

-----------------------------------------------------------------------------
(* Program constants.                                                      *)

NUL == 0
LF == 10
CR == 13
SPACE == 32
EQUALS == 61

LOW == 0
HIGH == 1

pinHiLed == 50
pinOkLed == 48
pinLoLed == 46

maxWeight == 6200
loLimit == 4990 * 10
hiLimit == 5010 * 10

\* "16 characters per row" of displayString and updateBar, "16 segments"
rowChars == 16
barSegments == 16

\* The bytes the serial port delivers in the model: NUL, the terminator,
\* carriage-return and the digit '9'.
ByteSample == {NUL, LF, CR, 57}

\* What a read of memory that does not belong to receivedStr may return.
Garbage == {CR, 57}

Pins == {pinHiLed, pinOkLed, pinLoLed}

\* The two places the linker may give numCharsReceived: somewhere else, or
\* directly behind receivedStr, so that receivedStr[maxChars] is its low byte.
Layouts == {"apart", "countAfter"}

-----------------------------------------------------------------------------
VARIABLES
    receivedStr,        \* char receivedStr[maxChars], indices 0..maxChars-1
    numCharsReceived,   \* int numCharsReceived
    tail,               \* the non-zero bytes behind receivedStr that the
                        \* finalization's strlen() ran over
    c,                  \* char c of loop(), the byte read last
    pc,                 \* where loop() stands
    weight,             \* float weight of loop(), in tenths of a gram
    lcdRow0, lcdRow1,   \* the two rows of the display, columns 0..15
    lcdCursor,          \* the display's cursor, <<column, row>>
    leds,               \* level of each LED pin
    layout,             \* where the build placed numCharsReceived
    fed,                \* history: the bytes read since the last reset
    reads, writes       \* history: the indices of receivedStr the last
                        \* step of the line assembler read and wrote

vars == <<receivedStr, numCharsReceived, tail, c, pc, weight, lcdRow0,
          lcdRow1, lcdCursor, leds, layout, fed, reads, writes>>

InBounds == 0 .. (maxChars - 1)

-----------------------------------------------------------------------------
(* Characters and C strings.                                               *)

\* int -> char, as "char c = Serial1.read()" converts (char is signed)
ToChar(b) == IF b > 127 THEN b - 256 ELSE b

\* char -> uint8_t, as lcd.write(uint8_t) receives it
ToByte(ch) == ch % 256

\* The memory strlen() walks: receivedStr, then the bytes behind it.
Memory == [i \in 1 .. maxChars |-> receivedStr[i - 1]] \o tail

RECURSIVE StrLenFrom(_, _)
StrLenFrom(mem, i) ==
    IF i > Len(mem) \/ mem[i] = NUL THEN i - 1 ELSE StrLenFrom(mem, i + 1)

\* strlen(): the number of characters before the first zero
StrLen(mem) == StrLenFrom(mem, 1)

\* The text a char[] holds: its characters up to the first zero
CStr(mem) == SubSeq(mem, 1, StrLen(mem))

\* StripCR without the test of line 114: the last character goes whatever
\* it is.  C8_BytesUpToNul tells the two apart.
StripLastChar(mem) ==
    LET len == StrLen(mem)
    IN  IF len > 0 THEN [mem EXCEPT ![len] = NUL] ELSE mem

\* Lines 114-116: a carriage-return in front of the terminator is
\* overwritten by a terminator.  mem is the memory from receivedStr[0] on.
StripCR(mem) ==
    LET len == StrLen(mem)
    IN  IF len > 0 /\ mem[len] = CR THEN [mem EXCEPT ![len] = NUL] ELSE mem

\* The sequences over S of length at most n
RECURSIVE SeqsUpTo(_, _)
SeqsUpTo(S, n) ==
    IF n = 0 THEN {<<>>}
    ELSE SeqsUpTo(S, n - 1)
         \cup {Append(s, x) : s \in {t \in SeqsUpTo(S, n - 1) : Len(t) = n - 1},
                              x \in S}

\* What lies behind receivedStr when strlen() finds no zero inside it:
\* the count's low byte (its high byte is zero) when the count is placed
\* there, and any non-zero bytes otherwise.
TailChoices ==
    IF \E i \in InBounds : receivedStr[i] = NUL THEN {<<>>}
    ELSE IF layout = "countAfter"
         THEN IF numCharsReceived % 256 = 0 THEN {<<>>}
              ELSE {<<numCharsReceived % 256>>}
         ELSE SeqsUpTo(Garbage, MaxOverrun)

-----------------------------------------------------------------------------
(* loop(), lines 111-128: the line assembler.                              *)

Init ==
    /\ receivedStr = [i \in InBounds |-> NUL]
    /\ numCharsReceived = 0
    /\ tail = <<>>
    /\ c = NUL
    /\ pc = "read"
    /\ weight = 0
    /\ lcdRow0 = [k \in 0 .. (rowChars - 1) |-> SPACE]
    /\ lcdRow1 = [k \in 0 .. (rowChars - 1) |-> SPACE]
    /\ lcdCursor = <<0, 0>>
    /\ leds = [p \in Pins |-> LOW]
    /\ layout \in Layouts
    /\ fed = <<>>
    /\ reads = {}
    /\ writes = {}

\* EndOfLine with the line forced out one character earlier.
\* C14_EmitsOnLineFeedOrFull tells the two apart.
EndOfLineEarly(ch) == ch = LF \/ numCharsReceived = maxChars - 1

\* Line 113: the byte ends the line
EndOfLine(ch) == ch = LF \/ numCharsReceived = maxChars

\* The count after line 126 stored a zero at index i and line 127
\* incremented the count: the store hits the count's low byte when i is
\* maxChars and the count lies behind the buffer.
CountAfterStore(i) ==
    IF i \in InBounds \/ layout = "apart"
    THEN {numCharsReceived + 1}
    ELSE {(numCharsReceived \div 256) * 256 + 1, numCharsReceived + 1}

\* FeedAppend with the byte echoed to the display as it arrives.
\* C16_AppendLeavesOutputs tells the two apart.
FeedAppendEcho(b) ==
    LET ch == ToChar(b)
        n  == numCharsReceived
    IN  /\ pc = "read"
        /\ ~(ch = LF \/ n = maxChars)
        /\ Len(fed) < maxChars + MaxFedSlack
        /\ receivedStr' =
              [i \in InBounds |->
                  IF i = n THEN ch ELSE IF i = n + 1 THEN NUL ELSE receivedStr[i]]
        /\ numCharsReceived' = n + 1
        /\ c' = ch
        /\ fed' = Append(fed, b)
        /\ reads' = {}
        /\ writes' = {n, n + 1}
        /\ lcdRow0' = [lcdRow0 EXCEPT ![n] = b]
        /\ UNCHANGED <<tail, pc, weight, lcdRow1, lcdCursor, leds, layout>>

\* Lines 123-128: the byte is added to the string
FeedAppend(b) ==
    LET ch == ToChar(b)
        n  == numCharsReceived
    IN  /\ pc = "read"
        /\ ~EndOfLine(ch)
        /\ Len(fed) < maxChars + MaxFedSlack
        /\ receivedStr' =
              [i \in InBounds |->
                  IF i = n THEN ch ELSE IF i = n + 1 THEN NUL ELSE receivedStr[i]]
        /\ numCharsReceived' \in CountAfterStore(n + 1)
        /\ c' = ch
        /\ fed' = Append(fed, b)
        /\ reads' = {}
        /\ writes' = {n, n + 1}
        /\ UNCHANGED <<tail, pc, weight, lcdRow0, lcdRow1, lcdCursor, leds, layout>>

\* Lines 113-116: the line is complete; a trailing carriage-return goes
FeedFinalize(b) ==
    LET ch == ToChar(b)
    IN  /\ pc = "read"
        /\ EndOfLine(ch)
        /\ \E t \in TailChoices, before \in Garbage \cup {NUL} :
              LET mem  == [i \in 1 .. maxChars |-> receivedStr[i - 1]] \o t
                  len  == StrLen(mem)
                  last == IF len = 0 THEN before ELSE mem[len]
                  new  == StripCR(mem)
              IN  /\ receivedStr' = [i \in InBounds |-> new[i + 1]]
                  /\ tail' = SubSeq(new, maxChars + 1, StrLen(new))
                  /\ reads' = (0 .. len) \cup {len - 1}
                  /\ writes' = IF last = CR THEN {len - 1} ELSE {}
        /\ c' = ch
        /\ fed' = Append(fed, b)
        /\ pc' = "display"
        /\ UNCHANGED <<numCharsReceived, weight, lcdRow0, lcdRow1, lcdCursor,
                       leds, layout>>

\* Lines 121-122: the string is reset
Reset ==
    /\ pc = "reset"
    /\ receivedStr' = [receivedStr EXCEPT ![0] = NUL]
    /\ numCharsReceived' = 0
    /\ tail' = <<>>
    /\ fed' = <<>>
    /\ reads' = {}
    /\ writes' = {0}
    /\ pc' = "read"
    /\ UNCHANGED <<c, weight, lcdRow0, lcdRow1, lcdCursor, leds, layout>>

-----------------------------------------------------------------------------
(* The display.                                                            *)

\* A row after lcd.write() of each of chars in turn with the cursor at
\* column col: every write stores at the cursor and moves it one right.
RowAfter(row, col, chars) ==
    [k \in DOMAIN row |->
        IF k >= col /\ k - col < Len(chars) THEN chars[k - col + 1] ELSE row[k]]

\* DisplayWrites without the fill of lines 58-59: the text's characters
\* only.  C11_RowRewritten tells the two apart.
DisplayWritesNoFill(str) ==
    LET num == StrLen(str)
    IN  [i \in 1 .. (IF num < rowChars THEN num ELSE rowChars) |-> ToByte(str[i])]

\* Lines 54-60: what displayString() writes, one entry for each lcd.write()
DisplayWrites(str) ==
    LET num == StrLen(str)
    IN  [i \in 1 .. rowChars |-> IF i - 1 < num THEN ToByte(str[i]) ELSE SPACE]

\* Lines 52-61: displayString(str)
ShowString(str) ==
    /\ lcdRow0' = RowAfter(lcdRow0, 0, DisplayWrites(str))
    /\ lcdCursor' = <<0 + Len(DisplayWrites(str)), 0>>

\* DisplayString with the reset of line 121 moved up in front of atof().
\* C13_ProcessedInOrder tells the two apart.
DisplayStringThenReset ==
    /\ pc = "display"
    /\ ShowString(Memory)
    /\ receivedStr' = [receivedStr EXCEPT ![0] = NUL]
    /\ pc' = "atof"
    /\ UNCHANGED <<numCharsReceived, tail, c, weight, lcdRow1,
                   leds, layout, fed, reads, writes>>

\* Line 117: displayString(receivedStr)
DisplayString ==
    /\ pc = "display"
    /\ ShowString(Memory)
    /\ pc' = "atof"
    /\ UNCHANGED <<receivedStr, numCharsReceived, tail, c, weight, lcdRow1,
                   leds, layout, fed, reads, writes>>

-----------------------------------------------------------------------------
(* atof(): the number a text starts with, in tenths.  White space, a sign, *)
(* digits, a decimal point and the first decimal are read; a text that     *)
(* starts with no number yields 0.  Exponents, "inf" and "nan" need bytes  *)
(* that ByteSample does not hold.                                          *)

IsSpace(ch) == ch \in {9, 10, 11, 12, 13, 32}
IsDigit(ch) == ch \in 48 .. 57

RECURSIVE SkipSpace(_, _)
SkipSpace(s, i) ==
    IF i <= Len(s) /\ IsSpace(s[i]) THEN SkipSpace(s, i + 1) ELSE i

\* <<value of the digits from position i on, position behind them>>
RECURSIVE ReadDigits(_, _, _)
ReadDigits(s, i, acc) ==
    IF i <= Len(s) /\ IsDigit(s[i])
    THEN ReadDigits(s, i + 1, acc * 10 + (s[i] - 48))
    ELSE <<acc, i>>

Atof(s) ==
    LET i     == SkipSpace(s, 1)
        neg   == i <= Len(s) /\ s[i] = 45
        j     == IF i <= Len(s) /\ s[i] \in {43, 45} THEN i + 1 ELSE i
        int   == ReadDigits(s, j, 0)
        k     == int[2]
        tenth == IF k + 1 <= Len(s) /\ s[k] = 46 /\ IsDigit(s[k + 1])
                 THEN s[k + 1] - 48 ELSE 0
        mag   == int[1] * 10 + tenth
    IN  IF neg THEN 0 - mag ELSE mag

\* Line 118: float weight = atof(receivedStr)
ParseWeight ==
    /\ pc = "atof"
    /\ weight' = Atof(CStr(Memory))
    /\ pc' = "bar"
    /\ UNCHANGED <<receivedStr, numCharsReceived, tail, c, lcdRow0, lcdRow1,
                   lcdCursor, leds, layout, fed, reads, writes>>

-----------------------------------------------------------------------------
(* updateBar(), lines 86-95.                                               *)

\* Arduino's round(x): (x) >= 0 ? (long)((x) + 0.5) : (long)((x) - 0.5),
\* for x = w / maxWeight * 16 with w in tenths
RoundSegments(w) ==
    LET den  == maxWeight * 10
        half == den \div 2
    IN  IF w >= 0 THEN (barSegments * w + half) \div den
        ELSE 0 - ((barSegments * (0 - w) + half) \div den)

\* long -> int: the AVR's int has 16 bits
ToInt16(v) == ((v + 32768) % 65536) - 32768

\* Line 88: int num = round(weight / maxWeight * 16)
BarNum(w) == ToInt16(RoundSegments(w))

\* BarWrites with the cell at index num filled as well.
\* C19_NoNumberIsZero tells the two apart.
BarWritesInclusive(w) ==
    LET num == BarNum(w)
    IN  [i \in 1 .. barSegments |-> IF i - 1 <= num THEN EQUALS ELSE SPACE]

\* Lines 89-94: what updateBar() writes, one entry for each lcd.write()
BarWrites(w) ==
    LET num == BarNum(w)
    IN  [i \in 1 .. barSegments |-> IF i - 1 < num THEN EQUALS ELSE SPACE]

\* Line 119: updateBar(weight)
UpdateBar ==
    /\ pc = "bar"
    /\ lcdRow1' = RowAfter(lcdRow1, 0, BarWrites(weight))
    /\ lcdCursor' = <<0 + Len(BarWrites(weight)), 1>>
    /\ pc' = "check1"
    /\ UNCHANGED <<receivedStr, numCharsReceived, tail, c, weight, lcdRow0,
                   leds, layout, fed, reads, writes>>

-----------------------------------------------------------------------------
(* checkWeigh(), lines 64-83.                                              *)

\* CheckWeighWrites with the limits themselves counted as Low and High.
\* C5_Classification tells the two apart.
CheckWeighWritesInclusive(w) ==
    IF w <= loLimit
    THEN << <<pinHiLed, LOW>>, <<pinOkLed, LOW>>, <<pinLoLed, HIGH>> >>
    ELSE IF w >= hiLimit
    THEN << <<pinHiLed, HIGH>>, <<pinOkLed, LOW>>, <<pinLoLed, LOW>> >>
    ELSE << <<pinHiLed, LOW>>, <<pinOkLed, HIGH>>, <<pinLoLed, LOW>> >>

\* CheckWeighWrites with an Ok branch that leaves the Low output as it was.
\* C6_OutputsFromWeight tells the two apart.
CheckWeighWritesOkKeepsLo(w) ==
    IF w < loLimit
    THEN << <<pinHiLed, LOW>>, <<pinOkLed, LOW>>, <<pinLoLed, HIGH>> >>
    ELSE IF w > hiLimit
    THEN << <<pinHiLed, HIGH>>, <<pinOkLed, LOW>>, <<pinLoLed, LOW>> >>
    ELSE << <<pinHiLed, LOW>>, <<pinOkLed, HIGH>>, <<pinOkLed, HIGH>> >>

\* The three digitalWrite() calls of the branch the weight takes, in order
CheckWeighWrites(w) ==
    IF w < loLimit
    THEN << <<pinHiLed, LOW>>, <<pinOkLed, LOW>>, <<pinLoLed, HIGH>> >>
    ELSE IF w > hiLimit
    THEN << <<pinHiLed, HIGH>>, <<pinOkLed, LOW>>, <<pinLoLed, LOW>> >>
    ELSE << <<pinHiLed, LOW>>, <<pinOkLed, HIGH>>, <<pinLoLed, LOW>> >>

\* The k-th digitalWrite() of checkWeigh(weight)
CheckWeighStep(k, from, to) ==
    LET wr == CheckWeighWrites(weight)[k]
    IN  /\ pc = from
        /\ leds' = [leds EXCEPT ![wr[1]] = wr[2]]
        /\ pc' = to
        /\ UNCHANGED <<receivedStr, numCharsReceived, tail, c, weight, lcdRow0,
                       lcdRow1, lcdCursor, layout, fed, reads, writes>>

CheckWeigh1 == CheckWeighStep(1, "check1", "check2")
CheckWeigh2 == CheckWeighStep(2, "check2", "check3")
CheckWeigh3 == CheckWeighStep(3, "check3", "reset")

-----------------------------------------------------------------------------
(* The sketch: loop() takes the bytes of Serial1 one at a time.            *)

Next ==
    \/ \E b \in ByteSample : FeedAppend(b)
    \/ \E b \in ByteSample : FeedFinalize(b)
    \/ DisplayString
    \/ ParseWeight
    \/ UpdateBar
    \/ CheckWeigh1
    \/ CheckWeigh2
    \/ CheckWeigh3
    \/ Reset

Spec == Init /\ [][Next]_vars

-----------------------------------------------------------------------------
(* checkWeigh() on its own: readings around the two limits, each           *)
(* classified from the outputs the reading before it left.                 *)

CheckWeights ==
    {0 - 10, 0, 10, 49000, 49899, 49900, 49901, 50000, 50099, 50100, 50101,
     51000, 62000, 99990}

InitCheck ==
    /\ Init
    /\ layout = "apart"

\* Lines 118-120 with the line left out: a reading reaches checkWeigh()
ReadingToCheck ==
    /\ pc \in {"read", "reset"}
    /\ weight' \in CheckWeights
    /\ pc' = "check1"
    /\ UNCHANGED <<receivedStr, numCharsReceived, tail, c, lcdRow0, lcdRow1,
                   lcdCursor, leds, layout, fed, reads, writes>>

NextCheck ==
    \/ ReadingToCheck
    \/ CheckWeigh1
    \/ CheckWeigh2
    \/ CheckWeigh3

SpecCheck == InitCheck /\ [][NextCheck]_vars

-----------------------------------------------------------------------------
(* updateBar() on its own: readings inside and outside the scale's range.  *)

\* Every whole number of segments from -2 to 18 (a segment is 387.5 g), the
\* two readings next to the first half segment, the 9999 g of an
\* overloaded scale and two readings whose segment count leaves the int.
BarWeights ==
    {k * 3875 : k \in (0 - 2) .. 18}
    \cup {1937, 1938, 0 - 1937, 0 - 1938, 99990, 127000000, 0 - 127000000}

InitBar ==
    /\ Init
    /\ layout = "apart"

\* Lines 118-119 with the line left out: a reading reaches updateBar()
ReadingToBar ==
    /\ pc \in {"read", "check1"}
    /\ weight' \in BarWeights
    /\ pc' = "bar"
    /\ UNCHANGED <<receivedStr, numCharsReceived, tail, c, lcdRow0, lcdRow1,
                   lcdCursor, leds, layout, fed, reads, writes>>

NextBar ==
    \/ ReadingToBar
    \/ UpdateBar

SpecBar == InitBar /\ [][NextBar]_vars

-----------------------------------------------------------------------------
(* The line assembler's claims.                                            *)

\* The outputs that are active
Active == {p \in Pins : leds[p] = HIGH}

\* The output that stands for a weight's class
ClassPin(w) ==
    IF w < loLimit THEN pinLoLed ELSE IF w > hiLimit THEN pinHiLed ELSE pinOkLed

\* The cells of the bar that are filled
FilledCells == {k \in DOMAIN lcdRow1 : lcdRow1[k] = EQUALS}

\* The characters of receivedStr itself, up to its first zero
BufferText == CStr([i \in 1 .. maxChars |-> receivedStr[i - 1]])

\* The line handed to displayString() and atof(), as bytes
EmittedLine == [i \in 1 .. StrLen(Memory) |-> ToByte(Memory[i])]

\* A text without one trailing carriage-return
LessTrailingCR(s) ==
    IF Len(s) > 0 /\ s[Len(s)] = CR THEN SubSeq(s, 1, Len(s) - 1) ELSE s

\* A sequence of bytes up to its first NUL
UpToNul(s) == SubSeq(s, 1, StrLen(s))

\* The bytes fed before the one that ended the line
FedContent == SubSeq(fed, 1, Len(fed) - 1)

\* C1: every write into receivedStr, of a character or of the terminator
\* behind it, targets an index in 0..maxChars-1.
C1_WritesInBounds ==
    [][ (pc = "read" /\ pc' = "read") => writes' \subseteq InBounds ]_vars

\* C2: a line-feed fed while no character is buffered makes the
\* finalization read no index outside 0..maxChars-1, emits the empty line,
\* and the empty line's weight is 0.
C2_EmptyLine ==
    [][ /\ (pc = "read" /\ numCharsReceived = 0 /\ pc' = "display")
            => (reads' \subseteq InBounds /\ EmittedLine' = <<>>)
        /\ (pc = "atof" /\ Len(fed) = 1 /\ pc' = "bar") => weight' = 0 ]_vars

\* C3: every emitted line holds at most maxChars-1 characters.
C3_LineLength == pc = "display" => Len(EmittedLine) <= maxChars - 1

\* C7: a line-feed emits the buffered text less one trailing
\* carriage-return, and unchanged when it does not end in one.
C7_StripsOneCR ==
    [][ (pc = "read" /\ pc' = "display")
            => EmittedLine' = LessTrailingCR(BufferText) ]_vars

\* C7 holds of every emission that finds the terminator inside the array.
StripsOneCRInsideArray ==
    [][ (pc = "read" /\ pc' = "display"
            /\ \E i \in InBounds : receivedStr[i] = NUL)
            => EmittedLine' = LessTrailingCR(BufferText) ]_vars

\* C8 as claimed: fewer than maxChars bytes, none of them a line-feed, fed
\* from an empty buffer and followed by a line-feed are emitted as they
\* are, less one trailing carriage-return.
C8_AllBytesAreContent ==
    (pc = "display" /\ c = LF /\ Len(fed) <= maxChars)
        => EmittedLine = LessTrailingCR(FedContent)

\* C8 as amended: such bytes are emitted as they are up to the first NUL
\* among them, less one trailing carriage-return of that part; with no NUL
\* among them that is all of them.
C8_BytesUpToNul ==
    (pc = "display" /\ c = LF /\ Len(fed) <= maxChars)
        => EmittedLine = LessTrailingCR(UpToNul(FedContent))

\* C8's case: a full line without NUL that ends in a carriage-return
C8_Witness ==
    /\ pc = "display"
    /\ c = LF
    /\ Len(fed) = maxChars
    /\ \A i \in 1 .. (Len(fed) - 1) : fed[i] # NUL
    /\ fed[Len(fed) - 1] = CR
    /\ Len(EmittedLine) = maxChars - 2

\* s can be had from t by leaving characters out
RECURSIVE IsSubSeq(_, _)
IsSubSeq(s, t) ==
    IF s = <<>> THEN TRUE
    ELSE IF t = <<>> THEN FALSE
    ELSE IF Head(s) = Head(t) THEN IsSubSeq(Tail(s), Tail(t))
    ELSE IsSubSeq(s, Tail(t))

\* C12: after every emission the count is 0 and the buffer holds the empty
\* text, so the next emitted line consists only of bytes fed after that
\* emission.
C12_ResetThenFreshLine ==
    [][ /\ (pc = "reset" /\ pc' = "read")
            => (numCharsReceived' = 0 /\ BufferText' = <<>>)
        /\ (pc = "read" /\ pc' = "display")
            => IsSubSeq(EmittedLine', FedContent') ]_vars

\* C12's first half holds of every emission.
ResetEmptiesBuffer ==
    [][ (pc = "reset" /\ pc' = "read")
            => (numCharsReceived' = 0 /\ BufferText' = <<>> /\ fed' = <<>>) ]_vars

\* C12's second half holds of every emission that finds the terminator
\* inside the array.
FreshLineInsideArray ==
    [][ (pc = "read" /\ pc' = "display"
            /\ \E i \in InBounds : receivedStr[i] = NUL)
            => IsSubSeq(EmittedLine', FedContent') ]_vars

\* C13: a completed line is displayed, then parsed and drawn as the bar,
\* then classified, then the buffer is reset, every step once and from the
\* line as it was emitted, and no byte is read before the reset is done.
C13_ProcessedInOrder ==
    [][ /\ pc' = "display" => pc = "read"
        /\ pc = "display"
            => /\ pc' = "atof"
               /\ \A k \in 0 .. (rowChars - 1) :
                     lcdRow0'[k] = IF k < Len(EmittedLine)
                                   THEN EmittedLine[k + 1] ELSE SPACE
        /\ pc = "atof" => (pc' = "bar" /\ weight' = Atof(CStr(Memory)))
        /\ pc = "bar"
            => /\ pc' = "check1"
               /\ \A k \in 0 .. (barSegments - 1) :
                     lcdRow1'[k] = IF k < BarNum(weight) THEN EQUALS ELSE SPACE
        /\ pc = "check1" => pc' = "check2"
        /\ pc = "check2" => pc' = "check3"
        /\ pc = "check3" => (pc' = "reset" /\ Active' = {ClassPin(weight)})
        /\ pc = "reset" => (pc' = "read" /\ numCharsReceived' = 0 /\ c' = c)
        /\ pc \notin {"read", "reset"}
            => (Memory' = Memory /\ fed' = fed /\ c' = c)
        /\ pc \notin {"read", "atof"} => weight' = weight ]_vars

\* C13's case: the line "999" has been displayed, drawn and classified
C13_Witness ==
    /\ pc = "reset"
    /\ fed = <<57, 57, 57, LF>>
    /\ weight = 9990
    /\ lcdRow0[2] = 57
    /\ FilledCells = {0, 1, 2}
    /\ Active = {pinLoLed}

\* C14: a feed step emits a line exactly when the byte is a line-feed or the
\* count has reached maxChars; it emits one line, and no other step does.
C14_EmitsOnLineFeedOrFull ==
    [][ /\ pc = "read"
            => /\ pc' \in {"read", "display"}
               /\ pc' = "display" <=> (c' = LF \/ numCharsReceived = maxChars)
        /\ pc' = "display" => pc = "read" ]_vars

\* C14's case: a byte that is no line-feed met the full count and the line
\* was emitted
C14_Witness ==
    /\ pc = "display"
    /\ c # LF
    /\ numCharsReceived = maxChars

\* C15: between feed steps the terminator sits at index numCharsReceived
\* of the buffer and the terminated text has numCharsReceived characters.
C15_TerminatedAtCount ==
    pc = "read" =>
        /\ numCharsReceived \in InBounds
        /\ receivedStr[numCharsReceived] = NUL
        /\ Len(BufferText) = numCharsReceived

\* C15 holds between feed steps while the array holds a terminator and no
\* NUL byte has been fed.
TerminatedAtCountInsideArray ==
    (/\ pc = "read"
     /\ \E i \in InBounds : receivedStr[i] = NUL
     /\ \A k \in 1 .. Len(fed) : fed[k] # NUL)
        => /\ numCharsReceived \in InBounds
           /\ receivedStr[numCharsReceived] = NUL
           /\ Len(BufferText) = numCharsReceived

\* C16: a feed step that appends a byte changes the buffer and the count
\* only, so the display and the outputs change only while an emitted line
\* is processed.
C16_AppendLeavesOutputs ==
    [][ /\ (pc = "read" /\ pc' = "read")
            => UNCHANGED <<lcdRow0, lcdRow1, lcdCursor, leds, weight, tail>>
        /\ <<lcdRow0, lcdRow1, lcdCursor, leds>>' # <<lcdRow0, lcdRow1, lcdCursor, leds>>
            => pc \in {"display", "bar", "check1", "check2", "check3"} ]_vars

\* C16's case: bytes have been appended while the display and the outputs
\* show the line before
C16_Witness ==
    /\ pc = "read"
    /\ numCharsReceived = 2
    /\ c = CR
    /\ lcdRow0[0] = 57
    /\ FilledCells = {0, 1, 2}
    /\ Active = {pinLoLed}

\* C17: a byte other than line-feed fed at the full count makes the step
\* emit the buffered line and is not stored: it is in no line, and the next
\* line starts with the byte fed after it.
C17_FullCountDropsByte ==
    [][ /\ (pc = "read" /\ numCharsReceived = maxChars /\ c' # LF
                /\ pc' = "display")
            => EmittedLine' = LessTrailingCR(BufferText)
        /\ (pc = "read" /\ fed = <<>> /\ pc' = "read")
            => (receivedStr'[0] = c' /\ numCharsReceived' = 1) ]_vars

\* C17's second half: the byte that met the full count is stored nowhere,
\* and every line starts with the first byte fed after the reset.
FullCountByteNotStored ==
    [][ /\ (pc = "read" /\ numCharsReceived = maxChars /\ pc' = "display")
            => \A i \in InBounds : receivedStr'[i] \in {receivedStr[i], NUL}
        /\ (pc = "read" /\ fed = <<>> /\ pc' = "read")
            => (receivedStr'[0] = c' /\ numCharsReceived' = 1)
        /\ (pc = "read" /\ fed # <<>> /\ pc' = "read")
            => receivedStr'[0] = receivedStr[0] ]_vars

\* C18: the count never exceeds maxChars and a line is emitted in every
\* maxChars + 1 consecutive feed steps, line-feed or none: at most maxChars
\* bytes are fed and waiting for their line.
C18_EmitsWithinBound ==
    /\ numCharsReceived <= maxChars
    /\ pc = "read" => Len(fed) <= maxChars

\* C18 where the count does not lie behind the buffer: the bytes waiting
\* are the count, and the count stays within maxChars.
EmitsWithinBoundApart ==
    (layout = "apart" /\ pc = "read") =>
        (Len(fed) = numCharsReceived /\ numCharsReceived <= maxChars)

\* C18's first part: while a byte is awaited every byte value can be fed.
FeedAlwaysEnabled ==
    (pc = "read" /\ Len(fed) < maxChars + MaxFedSlack) =>
        \A b \in ByteSample : ENABLED (FeedAppend(b) \/ FeedFinalize(b))

\* A line whose first byte that is no white space, if it has one, is no
\* digit, sign or decimal point: no number stands at its start
StartsWithNoNumber(s) ==
    \A i \in 1 .. Len(s) :
        (\A j \in 1 .. (i - 1) : IsSpace(s[j]))
            => (IsSpace(s[i]) \/ ~(IsDigit(s[i]) \/ s[i] \in {43, 45, 46}))

C19_EmptyLineWitness ==
    /\ pc = "reset"
    /\ fed = <<LF>>
    /\ EmittedLine = <<>>
    /\ Active = {pinLoLed}
    /\ FilledCells = {}

-----------------------------------------------------------------------------
(* The outputs' claims.                                                    *)

\* C4: in every state, between the writes of one classification too, at
\* most one of the three outputs is active.
C4_AtMostOneActive == Cardinality(Active) <= 1

\* C5: a classified weight is Low iff it is below loLimit, High iff it is
\* above hiLimit and Ok otherwise; 4990 and 5010 are Ok, 4989.9 is Low and
\* 5010.1 is High.
C5_Classification ==
    pc = "reset" =>
        /\ leds[pinLoLed] = HIGH <=> weight < loLimit
        /\ leds[pinHiLed] = HIGH <=> weight > hiLimit
        /\ leds[pinOkLed] = HIGH <=> (weight >= loLimit /\ weight <= hiLimit)
        /\ weight \in {49900, 50100} => leds[pinOkLed] = HIGH
        /\ weight = 49899 => leds[pinLoLed] = HIGH
        /\ weight = 50101 => leds[pinHiLed] = HIGH

\* C5's case: the reading on the lower limit has been classified
C5_Witness == pc = "reset" /\ weight = loLimit /\ leds[pinOkLed] = HIGH

\* C6: after a classification the three levels are given by the weight
\* alone: its class's output active and the other two inactive.
C6_OutputsFromWeight ==
    pc = "reset" =>
        leds = [p \in Pins |-> IF p = ClassPin(weight) THEN HIGH ELSE LOW]

\* C6's case: a reading above the upper limit has been classified
C6_Witness ==
    /\ pc = "reset"
    /\ weight > hiLimit
    /\ Active = {pinHiLed}

-----------------------------------------------------------------------------
(* The capacity bar's claims.                                              *)

\* C9: a segment count above 16 fills all 16 cells and one below 0 fills
\* none.
C9_BarClamps ==
    pc = "check1" =>
        /\ RoundSegments(weight) > barSegments
              => FilledCells = 0 .. (barSegments - 1)
        /\ RoundSegments(weight) < 0 => FilledCells = {}

\* C10: the bar is written as 16 cells from column 0 of row 1, the first
\* round(weight / 6200 * 16) of them filled and the others empty.
C10_BarCells ==
    pc = "check1" =>
        /\ lcdCursor = <<barSegments, 1>>
        /\ \A k \in 0 .. (barSegments - 1) :
              lcdRow1[k] = IF k < RoundSegments(weight) THEN EQUALS ELSE SPACE
        /\ weight = 0 => FilledCells = {}
        /\ weight = maxWeight * 10 => FilledCells = 0 .. (barSegments - 1)

-----------------------------------------------------------------------------
(* displayString() on its own: lines of the lengths the sketch's buffer    *)
(* takes, shorter and longer than a row, each shown over the one before.   *)

\* The longest text shown
MaxTextLen == 18

\* "5000", and for every length three texts whose characters all differ,
\* one of them of bytes above 127
DisplayTexts ==
    {<<53, 48, 48, 48>>}
    \cup {[i \in 1 .. n |-> base + i] : n \in 0 .. MaxTextLen, base \in {47, 64, 199}}

InitDisplay ==
    /\ Init
    /\ layout = "apart"

\* Lines 112-116 with the buffer left out: a line's bytes have been read
ReadingToDisplay ==
    /\ pc \in {"read", "atof"}
    /\ fed' \in DisplayTexts
    /\ pc' = "display"
    /\ UNCHANGED <<receivedStr, numCharsReceived, tail, c, weight, lcdRow0,
                   lcdRow1, lcdCursor, leds, layout, reads, writes>>

\* Line 117 for that line: displayString() of its characters
DisplayFed ==
    /\ pc = "display"
    /\ ShowString([i \in 1 .. Len(fed) |-> ToChar(fed[i])])
    /\ pc' = "atof"
    /\ UNCHANGED <<receivedStr, numCharsReceived, tail, c, weight, lcdRow1,
                   leds, layout, fed, reads, writes>>

NextDisplay ==
    \/ ReadingToDisplay
    \/ DisplayFed

SpecDisplay == InitDisplay /\ [][NextDisplay]_vars

\* C11: presenting a text writes 16 characters to row 0 from column 0, the
\* first min(len, 16) characters of the text and then spaces, so nothing of
\* the text shown before remains; "5000" gives "5000" and 12 spaces.
C11_RowRewritten ==
    pc = "atof" =>
        /\ lcdCursor = <<rowChars, 0>>
        /\ \A k \in 0 .. (rowChars - 1) :
              lcdRow0[k] = IF k < Len(fed) THEN fed[k + 1] ELSE SPACE
        /\ fed = <<53, 48, 48, 48>>
              => lcdRow0 = [k \in 0 .. (rowChars - 1) |->
                              IF k = 0 THEN 53 ELSE IF k < 4 THEN 48 ELSE SPACE]

\* C11's case: a text longer than the row has been shown
C11_Witness ==
    /\ pc = "atof"
    /\ Len(fed) > rowChars
    /\ lcdRow0[rowChars - 1] = fed[rowChars]

\* C9 and C10 hold of every weight whose segment count fits the 16 bit int.
BarCellsWithinInt ==
    (pc = "check1" /\ RoundSegments(weight) \in (0 - 32768) .. 32767) =>
        /\ lcdCursor = <<barSegments, 1>>
        /\ \A k \in 0 .. (barSegments - 1) :
              lcdRow1[k] = IF k < RoundSegments(weight) THEN EQUALS ELSE SPACE

====
